---- MODULE Spec2Model ----
(***************************************************************************)
(* The two sample programs source.c and source.cpp: a command-line integer *)
(* sorter.  argv[1] is parsed into a list of integers, the list is bubble  *)
(* sorted and printed on one line.  A C string is a sequence of one-       *)
(* character strings; the terminating NUL is not part of the sequence.     *)
(***************************************************************************)
EXTENDS Integers, Sequences, FiniteSets, TLC

\* ------------------------------------------------------------------ bounds
\* longest argv[1] enumerated over the whole alphabet
MaxLen == 4
\* longest well-formed list ("d,d,..." and "d, d, ...") and longest array
\* given to the sorter and the printer on their own
MaxN == 4
\* largest value of long / int (the width is scaled down so that a token of
\* three digits can overflow it)
LONG_MAX == 127
INT_MAX == 127

LONG_MIN == -LONG_MAX - 1
INT_MIN == -INT_MAX - 1

\* ------------------------------------------------------------- characters
Digits == <<"0", "1", "2", "3", "4", "5", "6", "7", "8", "9">>
IsDigit(c) == \E d \in 1..10 : Digits[d] = c
DigitVal(c) == (CHOOSE d \in 1..10 : Digits[d] = c) - 1
NUL == "NUL"

\* s[k] of the C string s, k counted from 0; the byte after the last is NUL
CharAt(s, k) == IF k < Len(s) THEN s[k + 1] ELSE NUL

\* the C string starting at &s[k]
Suffix(s, k) == SubSeq(s, k + 1, Len(s))

\* the characters argv[1] is enumerated over
Alphabet == {"1", "2", ",", " ", "a", "-"}

\* contents of memory malloc returns: indeterminate
Garbage == {-3, 4}

UsageMsg == "Usage: please provide a list of at least two integers to sort in the format \"1, 2, 3, 4, 5\"\n"

\* ------------------------------------------------- libc: strtok, strtol, atoi
RECURSIVE StrtokFrom(_, _, _, _)
StrtokFrom(s, k, cur, acc) ==
    IF k > Len(s)
    THEN IF cur = <<>> THEN acc ELSE Append(acc, cur)
    ELSE IF s[k] = ","
         THEN StrtokFrom(s, k + 1, <<>>, IF cur = <<>> THEN acc ELSE Append(acc, cur))
         ELSE StrtokFrom(s, k + 1, Append(cur, s[k]), acc)

\* the successive results of strtok(list, ","), strtok(NULL, ","), ...:
\* the maximal non-empty comma-free pieces of s
Strtok(s) == StrtokFrom(s, 1, <<>>, <<>>)

\* number of leading blanks of s
RECURSIVE SkipSpace(_, _)
SkipSpace(s, k) == IF CharAt(s, k) = " " THEN SkipSpace(s, k + 1) ELSE k

\* number of digits of s from position k on
RECURSIVE DigitRun(_, _)
DigitRun(s, k) == IF IsDigit(CharAt(s, k)) THEN 1 + DigitRun(s, k + 1) ELSE 0

\* the (unbounded) value of the n digits of s from position k on
RECURSIVE DigitsValue(_, _, _, _)
DigitsValue(s, k, n, acc) ==
    IF n = 0 THEN acc ELSE DigitsValue(s, k + 1, n - 1, acc * 10 + DigitVal(CharAt(s, k)))

\* what the subject sequence of s denotes: blanks, an optional sign, digits.
\* conv is FALSE when there is no digit to convert.
Numeral(s) ==
    LET b == SkipSpace(s, 0)
        neg == CharAt(s, b) = "-"
        d == IF CharAt(s, b) \in {"-", "+"} THEN b + 1 ELSE b
        n == DigitRun(s, d)
        m == DigitsValue(s, d, n, 0)
    IN [conv |-> n > 0, val |-> IF neg THEN -m ELSE m]

\* strtol that wraps a value out of range and leaves errno alone
StrtolNoRange(s, einval) ==
    LET r == Numeral(s)
    IN IF ~r.conv THEN [val |-> 0, err |-> IF einval THEN "EINVAL" ELSE "0"]
       ELSE [val |-> ((r.val - LONG_MIN) % (2 * (LONG_MAX + 1))) + LONG_MIN, err |-> "0"]

\* strtol that does not skip the blanks before the number
StrtolNoSkip(s, einval) ==
    LET neg == CharAt(s, 0) = "-"
        d == IF CharAt(s, 0) \in {"-", "+"} THEN 1 ELSE 0
        n == DigitRun(s, d)
        m == DigitsValue(s, d, n, 0)
        v == IF neg THEN -m ELSE m
    IN IF n = 0 THEN [val |-> 0, err |-> IF einval THEN "EINVAL" ELSE "0"]
       ELSE IF v > LONG_MAX THEN [val |-> LONG_MAX, err |-> "ERANGE"]
       ELSE IF v < LONG_MIN THEN [val |-> LONG_MIN, err |-> "ERANGE"]
       ELSE [val |-> v, err |-> "0"]

\* strtol(token, NULL, 10): the value and the errno it leaves.  Out of range
\* saturates and sets ERANGE.  With no conversion the result is 0 and errno
\* is EINVAL on the C libraries that report it (einval), 0 on the others.
Strtol(s, einval) ==
    LET r == Numeral(s)
    IN IF ~r.conv THEN [val |-> 0, err |-> IF einval THEN "EINVAL" ELSE "0"]
       ELSE IF r.val > LONG_MAX THEN [val |-> LONG_MAX, err |-> "ERANGE"]
       ELSE IF r.val < LONG_MIN THEN [val |-> LONG_MIN, err |-> "ERANGE"]
       ELSE [val |-> r.val, err |-> "0"]

\* atoi(s): the possible results.  A value that does not fit int is
\* undefined behaviour: any int may come back.
Atoi(s) ==
    LET r == Numeral(s)
    IN IF ~r.conv THEN {0}
       ELSE IF r.val > INT_MAX \/ r.val < INT_MIN THEN Garbage \cup {INT_MAX, INT_MIN}
       ELSE {r.val}

\* printf("%ld") / operator<<(int): the decimal digits of x, "-" first if x < 0
RECURSIVE FormatNat(_)
FormatNat(x) == IF x < 10 THEN <<Digits[x + 1]>> ELSE Append(FormatNat(x \div 10), Digits[(x % 10) + 1])
Format(x) == IF x < 0 THEN <<"-">> \o FormatNat(-x) ELSE FormatNat(x)

\* ------------------------------------------------------------ the sorters
Swap(a, x, y) == [a EXCEPT ![x] = a[y], ![y] = a[x]]

\* a pass that stops one pair early
RECURSIVE CPassSkipLast(_, _, _, _)
CPassSkipLast(a, k, n, sw) ==
    IF k < n - 2
    THEN IF a[k + 1] > a[k + 2]
         THEN CPassSkipLast(Swap(a, k + 1, k + 2), k + 1, n, TRUE)
         ELSE CPassSkipLast(a, k + 1, n, sw)
    ELSE [a |-> a, sw |-> sw]

\* a pass that also swaps equal neighbours
RECURSIVE CPassGe(_, _, _, _)
CPassGe(a, k, n, sw) ==
    IF k < n - 1
    THEN IF a[k + 1] >= a[k + 2]
         THEN CPassGe(Swap(a, k + 1, k + 2), k + 1, n, TRUE)
         ELSE CPassGe(a, k + 1, n, sw)
    ELSE [a |-> a, sw |-> sw]

\* source.c, the for loop of bubble_sort: one pass over i = 0 .. num_elems-2.
\* Returns the array after the pass and had_to_swap.
RECURSIVE CPassFrom(_, _, _, _)
CPassFrom(a, k, n, sw) ==
    IF k < n - 1
    THEN IF a[k + 1] > a[k + 2]
         THEN CPassFrom(Swap(a, k + 1, k + 2), k + 1, n, TRUE)
         ELSE CPassFrom(a, k + 1, n, sw)
    ELSE [a |-> a, sw |-> sw]

\* an inner loop whose range shrinks one element too far
RECURSIVE CppInnerShort(_, _, _, _, _)
CppInnerShort(v, j, n, oi, sw) ==
    IF j < n - oi - 2
    THEN IF v[j + 1] > v[j + 2]
         THEN CppInnerShort(Swap(v, j + 1, j + 2), j + 1, n, oi, TRUE)
         ELSE CppInnerShort(v, j + 1, n, oi, sw)
    ELSE [a |-> v, sw |-> sw]

\* source.cpp, the inner loop of bubbleSort: j = 0 .. n-i-2 for outer index i
RECURSIVE CppInnerFrom(_, _, _, _, _)
CppInnerFrom(v, j, n, oi, sw) ==
    IF j < n - oi - 1
    THEN IF v[j + 1] > v[j + 2]
         THEN CppInnerFrom(Swap(v, j + 1, j + 2), j + 1, n, oi, TRUE)
         ELSE CppInnerFrom(v, j + 1, n, oi, sw)
    ELSE [a |-> v, sw |-> sw]

\* ----------------------------------------------------------- the printers
\* a print loop that runs over the last element too
RECURSIVE CPrintAll(_, _, _, _)
CPrintAll(a, k, n, acc) ==
    IF k < n
    THEN CPrintAll(a, k + 1, n, acc \o Format(a[k + 1]) \o <<",", " ">>)
    ELSE acc

\* source.c print_array: "%ld, " for i < num_elems-1, then "%ld\n"
RECURSIVE CPrintFrom(_, _, _, _)
CPrintFrom(a, k, n, acc) ==
    IF k < n - 1
    THEN CPrintFrom(a, k + 1, n, acc \o Format(a[k + 1]) \o <<",", " ">>)
    ELSE acc

print_array(a, n) == CPrintFrom(a, 0, n, <<>>) \o Format(a[n]) \o <<"\n">>

\* source.cpp print: v[i] then endl for the last index, v[i] then ", " else
RECURSIVE CppPrintFrom(_, _, _, _)
CppPrintFrom(v, k, size, acc) ==
    IF k < size
    THEN IF k = size - 1
         THEN CppPrintFrom(v, k + 1, size, acc \o Format(v[k + 1]) \o <<"\n">>)
         ELSE CppPrintFrom(v, k + 1, size, acc \o Format(v[k + 1]) \o <<",", " ">>)
    ELSE acc

print(v, size) == CppPrintFrom(v, 0, size, <<>>)

\* source.cpp main, the format loop: index = 1, 4, 7, ... must hold ", "
RECURSIVE FormatCheck(_, _, _)
FormatCheck(s, index, cs) ==
    IF index < Len(s)
    THEN IF CharAt(s, index) = "," /\ CharAt(s, index + 1) = " "
         THEN FormatCheck(s, index + 3, TRUE)
         ELSE FALSE
    ELSE cs

\* source.c parse_list, the counting loop: the number of commas
RECURSIVE CountCommas(_, _)
CountCommas(s, k) ==
    IF k < Len(s)
    THEN (IF CharAt(s, k) = "," THEN 1 ELSE 0) + CountCommas(s, k + 1)
    ELSE 0

\* ------------------------------------------------------------------ state
VARIABLES
    prog,            \* "c" (source.c) or "cpp" (source.cpp)
    einval,          \* the C library sets errno = EINVAL when strtol converts nothing
    argc,            \* 1 + the number of user arguments
    arg,             \* argv[1]
    pc,              \* position in the program
    num_elements,    \* source.c parse_list
    curr_index,      \* source.c parse_list
    arr,             \* source.c *arr / source.cpp numbers
    commaSeparated,  \* source.cpp main
    i,               \* source.cpp: loop index of the push loop, then of bubbleSort
    swapped,         \* source.c had_to_swap / source.cpp swapped
    passes,          \* number of completed passes of the sorter
    parsed,          \* the sequence as the parser handed it to the sorter
    stdout,          \* characters written to standard output
    stderr,          \* characters written to standard error
    exit_code        \* -1 while running

vars == <<prog, einval, argc, arg, pc, num_elements, curr_index, arr, commaSeparated,
          i, swapped, passes, parsed, stdout, stderr, exit_code>>

\* ----------------------------------------------------------------- inputs
Strings(n) == UNION {[1..k -> Alphabet] : k \in 0..n}

ListDigits == {"1", "2", "3"}

RECURSIVE Join(_, _)
Join(ds, sep) ==
    IF Len(ds) = 1 THEN <<ds[1]>> ELSE <<ds[1]>> \o sep \o Join(Tail(ds), sep)

\* "d,d,...,d" and "d, d, ..., d" for every choice of 2..MaxN digits
Lists == UNION {{Join(ds, <<",">>), Join(ds, <<",", " ">>)} :
                    ds \in UNION {[1..k -> ListDigits] : k \in 2..MaxN}}

Examples == {
    <<"1", ",", " ", "2", ",", " ", "3", ",", " ", "4", ",", " ", "5">>,
    <<"5", ",", "3", ",", "1", ",", "2", ",", "4">>,
    <<"5", ",", " ", "3", ",", " ", "1", ",", " ", "2", ",", " ", "4">>,
    <<"1", ",", "2", "1", "1">>,
    <<"-", "2", "1", "1", ",", "1">>,
    <<"-", "1", "2", ",", "1", "0", "0", ",", "7">>,
    <<"1", "2", ",", " ", "3">> }

\* argv[1] when it is the only user argument, and when a second one follows
\* it (no program reads argv[2])
Inputs(n) == IF n = 1 THEN {<<>>}
             ELSE IF n = 2 THEN Strings(MaxLen) \cup Lists \cup Examples
             ELSE Lists \cup Examples \cup Strings(2)

Init ==
    /\ prog \in {"c", "cpp"}
    /\ einval \in (IF prog = "c" THEN BOOLEAN ELSE {FALSE})
    /\ argc \in 1..3
    /\ arg \in Inputs(argc)
    /\ pc = "main"
    /\ num_elements = 0
    /\ curr_index = 0
    /\ arr = <<>>
    /\ commaSeparated = FALSE
    /\ i = 0
    /\ swapped = FALSE
    /\ passes = 0
    /\ parsed = <<>>
    /\ stdout = <<>>
    /\ stderr = <<>>
    /\ exit_code = -1

\* ---------------------------------------------------------------- source.c
\* usage(); return 1;
CUsage ==
    /\ stderr' = Append(stderr, UsageMsg)
    /\ exit_code' = 1
    /\ pc' = "done"

\* main: the argc test, then the call of parse_list
CMain ==
    /\ prog = "c" /\ pc = "main"
    /\ IF argc < 2
       THEN CUsage
       ELSE pc' = "parse_list" /\ UNCHANGED <<stderr, exit_code>>
    /\ UNCHANGED <<prog, einval, argc, arg, num_elements, curr_index, arr, commaSeparated,
                   i, swapped, passes, parsed, stdout>>

\* parse_list up to the first strtok: count the commas, return 0 if there is
\* none, else allocate commas + 1 longs (contents indeterminate)
CParseCount ==
    /\ prog = "c" /\ pc = "parse_list"
    /\ LET commas == CountCommas(arg, 0)
       IN IF commas = 0
          THEN /\ arr' = <<>>
               /\ num_elements' = 0
               /\ CUsage
          ELSE /\ num_elements' = commas + 1
               /\ arr' \in [1..(commas + 1) -> Garbage]
               /\ pc' = "strtok"
               /\ UNCHANGED <<stderr, exit_code>>
    /\ UNCHANGED <<prog, einval, argc, arg, curr_index, commaSeparated,
                   i, swapped, passes, parsed, stdout>>

\* one iteration of the token loop: strtol, the errno test, the store
CParseToken ==
    /\ prog = "c" /\ pc = "strtok"
    /\ curr_index < Len(Strtok(arg))
    /\ LET token == Strtok(arg)[curr_index + 1]
           r == Strtol(token, einval)
       IN IF r.err # "0"
          THEN /\ arr' = <<>>
               /\ CUsage
               /\ UNCHANGED curr_index
          ELSE /\ arr' = [arr EXCEPT ![curr_index + 1] = r.val]
               /\ curr_index' = curr_index + 1
               /\ UNCHANGED <<pc, stderr, exit_code>>
    /\ UNCHANGED <<prog, einval, argc, arg, num_elements, commaSeparated,
                   i, swapped, passes, parsed, stdout>>

\* strtok returned NULL: parse_list returns num_elements (not 0), main goes
\* on to bubble_sort
CParseReturn ==
    /\ prog = "c" /\ pc = "strtok"
    /\ curr_index = Len(Strtok(arg))
    /\ pc' = "bubble_sort"
    /\ parsed' = arr
    /\ UNCHANGED <<prog, einval, argc, arg, num_elements, curr_index, arr, commaSeparated,
                   i, swapped, passes, stdout, stderr, exit_code>>

\* bubble_sort: one iteration of while (true)
CPass ==
    /\ prog = "c" /\ pc = "bubble_sort"
    /\ LET r == CPassFrom(arr, 0, num_elements, FALSE)
       IN /\ arr' = r.a
          /\ swapped' = r.sw
          /\ pc' = IF r.sw THEN "bubble_sort" ELSE "print_array"
    /\ passes' = passes + 1
    /\ UNCHANGED <<prog, einval, argc, arg, num_elements, curr_index, commaSeparated,
                   i, parsed, stdout, stderr, exit_code>>

\* print_array, free, and the end of main (which returns 0)
CPrint ==
    /\ prog = "c" /\ pc = "print_array"
    /\ stdout' = stdout \o print_array(arr, num_elements)
    /\ exit_code' = 0
    /\ pc' = "done"
    /\ UNCHANGED <<prog, einval, argc, arg, num_elements, curr_index, arr, commaSeparated,
                   i, swapped, passes, parsed, stderr>>

\* -------------------------------------------------------------- source.cpp
\* main up to the push loop: the argc test and the format loop
CppMain ==
    /\ prog = "cpp" /\ pc = "main"
    /\ IF argc = 2
       THEN /\ commaSeparated' = FormatCheck(arg, 1, FALSE)
            /\ pc' = IF commaSeparated' THEN "push" ELSE "size"
       ELSE /\ pc' = "size"
            /\ UNCHANGED commaSeparated
    /\ UNCHANGED <<prog, einval, argc, arg, num_elements, curr_index, arr,
                   i, swapped, passes, parsed, stdout, stderr, exit_code>>

\* one iteration of the push loop: atoi of the rest of the string at every
\* character that is neither ',' nor ' '
CppPush ==
    /\ prog = "cpp" /\ pc = "push"
    /\ i < Len(arg)
    /\ IF CharAt(arg, i) # "," /\ CharAt(arg, i) # " "
       THEN \E x \in Atoi(Suffix(arg, i)) : arr' = Append(arr, x)
       ELSE UNCHANGED arr
    /\ i' = i + 1
    /\ pc' = IF i + 1 < Len(arg) THEN "push" ELSE "size"
    /\ UNCHANGED <<prog, einval, argc, arg, num_elements, curr_index, commaSeparated,
                   swapped, passes, parsed, stdout, stderr, exit_code>>

\* the size test: the usage message (on standard output) and return 0, or
\* the call of bubbleSort
CppSize ==
    /\ prog = "cpp" /\ pc = "size"
    /\ IF Len(arr) < 2
       THEN /\ stdout' = Append(stdout, UsageMsg)
            /\ exit_code' = 0
            /\ pc' = "done"
            /\ UNCHANGED <<i, parsed>>
       ELSE /\ pc' = "bubbleSort"
            /\ i' = 0
            /\ parsed' = arr
            /\ UNCHANGED <<stdout, exit_code>>
    /\ UNCHANGED <<prog, einval, argc, arg, num_elements, curr_index, arr, commaSeparated,
                   swapped, passes, stderr>>

\* bubbleSort: one iteration of the outer loop, with its break and its
\* i < n - 1 test for the next one
CppPass ==
    /\ prog = "cpp" /\ pc = "bubbleSort"
    /\ LET n == Len(arr)
           r == CppInnerFrom(arr, 0, n, i, FALSE)
       IN IF i < n - 1
          THEN /\ arr' = r.a
               /\ swapped' = r.sw
               /\ passes' = passes + 1
               /\ i' = IF r.sw THEN i + 1 ELSE i
               /\ pc' = IF r.sw /\ i + 1 < n - 1 THEN "bubbleSort" ELSE "print"
          ELSE /\ pc' = "print"
               /\ UNCHANGED <<arr, swapped, passes, i>>
    /\ UNCHANGED <<prog, einval, argc, arg, num_elements, curr_index, commaSeparated,
                   parsed, stdout, stderr, exit_code>>

\* print and return 0
CppPrint ==
    /\ prog = "cpp" /\ pc = "print"
    /\ stdout' = stdout \o print(arr, Len(arr))
    /\ exit_code' = 0
    /\ pc' = "done"
    /\ UNCHANGED <<prog, einval, argc, arg, num_elements, curr_index, arr, commaSeparated,
                   i, swapped, passes, parsed, stderr>>

Next ==
    \/ CMain \/ CParseCount \/ CParseToken \/ CParseReturn \/ CPass \/ CPrint
    \/ CppMain \/ CppPush \/ CppSize \/ CppPass \/ CppPrint

Spec == Init /\ [][Next]_vars

\* ------------------------------------------- the sorter and printer alone
UnitVals == {-12, 0, 3, 10}

Arrays(lo, hi) == UNION {[1..k -> UnitVals] : k \in lo..hi}

\* the state at the call of the sorter (at = "sort") or of the printer
\* (at = "print") on the array a
CallInit(at, lo) ==
    /\ prog \in {"c", "cpp"}
    /\ einval = FALSE
    /\ argc = 2
    /\ arg = <<>>
    /\ arr \in Arrays(IF prog = "c" THEN lo ELSE 1, MaxN)
    /\ pc = (IF at = "sort"
             THEN (IF prog = "c" THEN "bubble_sort" ELSE "bubbleSort")
             ELSE (IF prog = "c" THEN "print_array" ELSE "print"))
    /\ num_elements = (IF prog = "c" THEN Len(arr) ELSE 0)
    /\ curr_index = num_elements
    /\ commaSeparated = (prog = "cpp")
    /\ i = 0
    /\ swapped = FALSE
    /\ passes = 0
    /\ parsed = arr
    /\ stdout = <<>>
    /\ stderr = <<>>
    /\ exit_code = -1

\* bubble_sort on every array of 2..MaxN values, bubbleSort on every array of
\* 1..MaxN values
SortInit == CallInit("sort", 2)
SortNext == CPass \/ CppPass \/ CPrint \/ CppPrint
SortSpec == SortInit /\ [][SortNext]_vars

\* print_array and print on every array of 1..MaxN values
PrintInit == CallInit("print", 1)
PrintNext == CPrint \/ CppPrint
PrintSpec == PrintInit /\ [][PrintNext]_vars

\* ------------------------------------------------------------- properties
Nondecreasing(s) == \A k \in 1..(Len(s) - 1) : s[k] <= s[k + 1]

Occurrences(s, x) == Cardinality({k \in 1..Len(s) : s[k] = x})

IsPermutation(s, t) ==
    /\ Len(s) = Len(t)
    /\ \A k \in 1..Len(s) : Occurrences(s, s[k]) = Occurrences(t, s[k])

\* the line the spec asks of the printer: the elements joined by ", ", then
\* a newline
RECURSIVE Joined(_)
Joined(s) == IF Len(s) = 1 THEN Format(s[1]) ELSE Format(s[1]) \o <<",", " ">> \o Joined(Tail(s))
Line(s) == Joined(s) \o <<"\n">>

UsageReported == pc = "done" /\ (stderr = <<UsageMsg>> \/ stdout = <<UsageMsg>>)
ListPrinted == pc = "done" /\ stdout # <<>> /\ stdout # <<UsageMsg>>
Sorting == pc \in {"bubble_sort", "print_array", "bubbleSort", "print"}

AllDigits(t) == t # <<>> /\ \A k \in 1..Len(t) : IsDigit(t[k])

\* s is a list of at least two unsigned integers within long, separated by
\* a bare comma (sep = <<>>) or by a comma and one blank (sep = <<" ">>)
ItemDigits(t, k, sep) ==
    IF k = 1 \/ sep = <<>> THEN t
    ELSE IF t # <<>> /\ t[1] = " " THEN Tail(t) ELSE <<>>

ItemValue(t, k, sep) == DigitsValue(ItemDigits(t, k, sep), 0, Len(ItemDigits(t, k, sep)), 0)

IsList(s, sep) ==
    LET t == Strtok(s)
    IN /\ Len(t) >= 2
       /\ CountCommas(s, 0) = Len(t) - 1
       /\ \A k \in 1..Len(t) :
             AllDigits(ItemDigits(t[k], k, sep)) /\ ItemValue(t[k], k, sep) <= LONG_MAX

ListValues(s, sep) == [k \in 1..Len(Strtok(s)) |-> ItemValue(Strtok(s)[k], k, sep)]

Ascending(s) == SortSeq(s, LAMBDA x, y : x < y)

HasOverflowToken(s) ==
    \E k \in 1..Len(Strtok(s)) :
        LET r == Numeral(Strtok(s)[k])
        IN r.conv /\ (r.val > LONG_MAX \/ r.val < LONG_MIN)

HasNonNumericToken(s) ==
    \E k \in 1..Len(Strtok(s)) : ~Numeral(Strtok(s)[k]).conv

\* C1: in both programs the sequence handed to the printer is a permutation
\* of the sequence the parser produced and is non-decreasing.
C1_SortedPermutation ==
    pc \in {"print_array", "print"} => IsPermutation(arr, parsed) /\ Nondecreasing(arr)

C1_Witness ==
    pc = "print_array" /\ Len(arr) >= 3 /\ arr # parsed /\ curr_index = num_elements

\* C2: the driver ends with the usage message and exit code 1, no list
\* printed, when the argument count is not one or the parser gave fewer than
\* two elements; otherwise it prints the list and ends with exit code 0.
C2_UsageOrRun ==
    pc = "done" =>
        IF argc # 2 \/ Len(parsed) < 2
        THEN UsageReported /\ ~ListPrinted /\ exit_code = 1
        ELSE ListPrinted /\ exit_code = 0

\* C3: an input with a non-numeric token is never sorted and printed; the
\* driver reports usage.
C3_NonNumericRejected ==
    pc = "done" /\ argc >= 2 /\ HasNonNumericToken(arg) => UsageReported /\ ~ListPrinted

\* C4: the parser fails whenever splitting on the delimiter yields fewer than
\* two non-empty tokens.
C4_FewTokensRejected ==
    argc >= 2 /\ Len(Strtok(arg)) < 2 =>
        /\ ~Sorting
        /\ pc = "done" => UsageReported /\ ~ListPrinted

\* C5 as stated: a bare-comma list of at least two integers is sorted and
\* printed by both programs.
C5_BareCommaBoth ==
    pc = "done" /\ argc = 2 /\ IsList(arg, <<>>) =>
        stdout = Line(Ascending(ListValues(arg, <<>>)))

\* C5 amended: source.c sorts and prints a bare-comma list exactly like a
\* comma-plus-space list; source.cpp reports usage for every bare-comma list.
C5_BareCommaC ==
    pc = "done" /\ argc >= 2 =>
        /\ prog = "c" =>
              \A sep \in {<<>>, <<" ">>} :
                  IsList(arg, sep) =>
                      stdout = Line(Ascending(ListValues(arg, sep))) /\ exit_code = 0
        /\ prog = "cpp" /\ IsList(arg, <<>>) => UsageReported /\ ~ListPrinted

C5_Witness ==
    /\ pc = "done" /\ prog = "c" /\ argc = 2
    /\ arg = <<"5", ",", "3", ",", "1", ",", "2", ",", "4">>
    /\ stdout = <<"1", ",", " ", "2", ",", " ", "3", ",", " ", "4", ",", " ", "5", "\n">>

\* C6: a token whose value is outside the integer range makes the parse fail:
\* no array, nothing sorted or printed, and every value stored from a token
\* is the exact value of that token.
C6_OverflowRejected ==
    /\ argc >= 2 /\ HasOverflowToken(arg) =>
          /\ ~Sorting
          /\ pc = "done" => UsageReported /\ ~ListPrinted /\ arr = <<>>
    /\ prog = "c" /\ pc = "strtok" =>
          \A k \in 1..curr_index : arr[k] = Numeral(Strtok(arg)[k]).val

C6_Witness ==
    pc = "done" /\ prog = "c" /\ HasOverflowToken(arg) /\ curr_index = 1 /\ stderr = <<UsageMsg>>

\* C7: the printer writes the n >= 1 elements in order, ", " between
\* consecutive elements (n-1 separators), none after the last, then exactly
\* one newline.
C7_PrintedLine ==
    pc = "done" =>
        /\ stdout = Line(arr)
        /\ Occurrences(stdout, ",") = Len(arr) - 1
        /\ Occurrences(stdout, "\n") = 1
        /\ stdout[Len(stdout)] = "\n"

C7_Witness ==
    pc = "done" /\ Len(arr) >= 3 /\ arr[1] < 0 /\ arr[2] >= 10

\* C8: bubble_sort of source.c goes on while the last pass swapped, stops
\* after the first pass without a swap, and makes at most n passes; the array
\* is then sorted.
C8_Terminates ==
    prog = "c" =>
        /\ pc = "bubble_sort" => passes < num_elements /\ (passes > 0 => swapped)
        /\ pc \in {"print_array", "done"} =>
              /\ ~swapped
              /\ passes >= 1 /\ passes <= num_elements
              /\ Nondecreasing(arr)
              /\ IsPermutation(arr, parsed)

C8_Witness ==
    prog = "c" /\ pc = "print_array" /\ num_elements >= 3 /\ passes = num_elements

\* C9: when parse_list returns a nonzero count, the write index equals that
\* count: every element of the array was stored from a token.
C9_AllStored ==
    prog = "c" /\ pc \in {"bubble_sort", "print_array"} => curr_index = num_elements

\* C10: in bubbleSort of source.cpp, after each completed outer iteration the
\* elements at the end of v, one per completed iteration, are in their final
\* places; v is sorted at exit.
C10_SuffixFinal ==
    prog = "cpp" =>
        /\ \A k \in (Len(arr) - passes + 1)..Len(arr) :
              \A j \in 1..(k - 1) : arr[j] <= arr[k]
        /\ passes <= Len(arr)
        /\ pc \in {"print", "done"} => Nondecreasing(arr) /\ IsPermutation(arr, parsed)

C10_Witness ==
    prog = "cpp" /\ pc = "bubbleSort" /\ passes = 2 /\ Len(arr) >= 4 /\ ~Nondecreasing(arr)

====
